---- MODULE Spec2Model ----
(***************************************************************************)
(* Flux-Gate: the ingestion service (POST /init, POST /order), the counter *)
(* store (stock keys, rate tallies, idempotency markers), the durable log  *)
(* (topic "orders", one partition, consumer group "inventory-group") and   *)
(* the inventory worker with its record-of-truth (products, orders).       *)
(*                                                                         *)
(* Every await of a handler is one step of the model: the counter store    *)
(* and the broker serve one command at a time, and the handlers of         *)
(* concurrent requests interleave between their awaits.                    *)
(***************************************************************************)
EXTENDS Integers, Sequences, FiniteSets, TLC

\* ---------------------------------------------------------------- bounds
NumReq == 2        \* order requests per behaviour
MaxQty == 2        \* largest quantity given to POST /init
MaxInits == 1      \* POST /init calls per behaviour
MaxTicks == 1      \* clock advances per behaviour
MaxDbStock == 1    \* largest durable stock left in the products row by earlier runs
MaxCrashes == 1    \* worker kills per behaviour
MaxForeign == 1    \* messages written to the topic by other producers

\* ------------------------------------------------------ program constants
RateCap == 50      \* if (currentRate > 50)
RateTtl == 2       \* redisClient.expire(rateKey, 2)
MarkerTtl == 60    \* redisClient.set(..., '1', 'EX', 60)
SeedStock == 100   \* INSERT INTO products (id, stock) VALUES ('iphone-15', 100)

None == <<>>                 \* an absent key of the counter store, an absent row
Some(v) == <<v>>             \* a key or a row that holds v
Val(o) == o[1]
Undefined == "undefined"     \* a body field or a header the client did not send

SeedProduct == "iphone-15"
Products == {"iphone-15", "ps5"}
TokenOrder == <<"k1", "k2">>
Tokens == {TokenOrder[i] : i \in 1..Len(TokenOrder)}
Users == {"u1"}

ReqProducts == Products
ReqTokens == Tokens \cup {Undefined}

Requests == 1..NumReq

\* the positions of the log: one message per request at most, and the foreign ones
Offsets == 1..(NumReq + MaxForeign)

VARIABLES
  now,        \* Math.floor(Date.now() / 1000)
  stock,      \* counter store: product:{id}:stock
  rate,       \* counter store: rate:{second} -> [n, exp]
  marker,     \* counter store: idempotency:{token} -> expiry deadline
  log,        \* topic "orders": the acknowledged messages, in offset order
  uuid,       \* number of reservation ids minted by uuidv4()
  reqs,       \* the order requests: position of the handler, inputs, locals, reply
  inits,      \* POST /init calls so far, per product, with the last quantity and decs at that call
  ticks,      \* clock advances so far
  decs,       \* reservation script executions that returned 1, per product
  outage,     \* counter store: None while reachable, Some(n) once it went down after n arrivals
  products,   \* record-of-truth: products.stock by id
  orders,     \* record-of-truth: the committed orders rows, in insertion order
  worker,     \* the worker: position in the handler, in-memory offset, open transaction
  committed,  \* the offset committed for the consumer group
  crashes,    \* worker kills so far
  stock0,     \* durable stock of each product when the worker first started
  hist        \* observations of the worker's handler, per offset

gateVars == <<now, stock, rate, marker, log, uuid, reqs, inits, ticks, decs, outage>>
workerVars == <<products, orders, worker, committed, crashes, stock0, hist>>
vars == <<now, stock, rate, marker, log, uuid, reqs, inits, ticks, decs, outage,
          products, orders, worker, committed, crashes, stock0, hist>>

\* ------------------------------------------------------------ counter store

\* tonumber(redis.call('get', stockKey) or "0")
Current(p) == IF stock[p] = None THEN 0 ELSE Val(stock[p])

\* the script with "return 1" on both branches
ScriptResultAlways(p, qty) == 1

\* the script with "if current > qty": the last unit is never sold
ScriptResultStrict(p, qty) == IF Current(p) > qty THEN 1 ELSE 0

\* decrementStockScript: the value returned (1 or 0)
ScriptResult(p, qty) == IF Current(p) >= qty THEN 1 ELSE 0

\* a script that runs its decrby twice
ScriptStockTwice(p, qty) ==
  IF Current(p) >= qty THEN [stock EXCEPT ![p] = Some(Current(p) - 2 * qty)] ELSE stock

\* the script without "if current >= qty": a plain DECRBY
ScriptStockUnguarded(p, qty) == [stock EXCEPT ![p] = Some(Current(p) - qty)]

\* decrementStockScript: the stock keys after the script (decrby on success only)
ScriptStock(p, qty) ==
  IF Current(p) >= qty THEN [stock EXCEPT ![p] = Some(Current(p) - qty)] ELSE stock

\* the rate tallies that are still there at second t
LiveRate(rt, t) ==
  [s \in {k \in DOMAIN rt : rt[k].exp = None \/ Val(rt[k].exp) > t} |-> rt[s]]

\* the idempotency markers that are still there at second t
LiveMarker(m, t) ==
  [k \in DOMAIN m |-> IF m[k] # None /\ Val(m[k]) <= t THEN None ELSE m[k]]

\* redisClient.incr(rateKey): creates the key at 1, keeps the expiry of an existing key
Incr(s) ==
  IF s \in DOMAIN rate
    THEN [rate EXCEPT ![s].n = @ + 1]
    ELSE [k \in DOMAIN rate \cup {s} |->
            IF k = s THEN [n |-> 1, exp |-> None] ELSE rate[k]]

\* redisClient.expire(rateKey, 2): no effect on a key that is gone
Expire(s) ==
  IF s \in DOMAIN rate THEN [rate EXCEPT ![s].exp = Some(now + RateTtl)] ELSE rate

\* ------------------------------------------------------------ POST /init

\* an initStock that adds to the key: INCRBY product:{id}:stock quantity
SetStockAdds(st, p, q) ==
  [st EXCEPT ![p] = Some((IF st[p] = None THEN 0 ELSE Val(st[p])) + q)]

\* redisClient.set(`product:${productId}:stock`, quantity): the keys afterwards
SetStock(st, p, q) == [st EXCEPT ![p] = Some(q)]

\* initStock: SET product:{id}:stock quantity
InitStock(p, q) ==
  /\ inits.total < MaxInits
  /\ outage = None
  /\ stock' = SetStock(stock, p, q)
  /\ inits' = [total |-> inits.total + 1,
               n |-> [inits.n EXCEPT ![p] = @ + 1],
               qty |-> [inits.qty EXCEPT ![p] = q],
               base |-> [inits.base EXCEPT ![p] = decs[p]]]
  /\ UNCHANGED <<now, rate, marker, log, uuid, reqs, ticks, decs, outage>>
  /\ UNCHANGED workerVars

\* ------------------------------------------------------------ POST /order

NewReq == [pc |-> "new", productId |-> Undefined, userId |-> Undefined,
           key |-> Undefined, sec |-> 0, reply |-> "none", dec |-> 0, orderId |-> 0]

\* !idempotencyKey
Falsy(k) == k \in {Undefined, ""}

\* the header check placed before the threshold
AdmitHeaderFirst(rq, cur) ==
  IF Falsy(rq.key) THEN [rq EXCEPT !.pc = "done", !.reply = "bad_request"]
  ELSE IF cur > RateCap THEN [rq EXCEPT !.pc = "done", !.reply = "redirect"]
  ELSE [rq EXCEPT !.pc = "get"]

\* the threshold with "currentRate >= 50"
AdmitOffByOne(rq, cur) ==
  IF cur >= RateCap THEN [rq EXCEPT !.pc = "done", !.reply = "redirect"]
  ELSE IF Falsy(rq.key) THEN [rq EXCEPT !.pc = "done", !.reply = "bad_request"]
  ELSE [rq EXCEPT !.pc = "get"]

\* the handler after the rate-limit block: threshold, then the header check
Admit(rq, cur) ==
  IF cur > RateCap THEN [rq EXCEPT !.pc = "done", !.reply = "redirect"]
  ELSE IF Falsy(rq.key) THEN [rq EXCEPT !.pc = "done", !.reply = "bad_request"]
  ELSE [rq EXCEPT !.pc = "get"]

\* the requests are numbered in the order of their arrival
Arrives(r) == \A q \in Requests : q < r => reqs[q].pc # "new"

\* the tokens are opaque: they are named in the order of their first use
Used == {reqs[q].key : q \in Requests} \ {Undefined}
FreshOrUsed(k) ==
  \/ Falsy(k)
  \/ k \in Used
  \/ \E i \in 1..Len(TokenOrder) :
       /\ TokenOrder[i] = k
       /\ \A j \in 1..(i - 1) : TokenOrder[j] \in Used

\* a handler that sets the idempotency marker on arrival, before the threshold
OrderIncrMarksFirst(r, p, u, k) ==
  /\ reqs[r].pc = "new"
  /\ outage = None
  /\ Arrives(r)
  /\ FreshOrUsed(k)
  /\ rate' = Incr(now)
  /\ marker' = IF Falsy(k) THEN marker ELSE [marker EXCEPT ![k] = Some(now + MarkerTtl)]
  /\ LET rq == [reqs[r] EXCEPT !.productId = p, !.userId = u, !.key = k, !.sec = now]
         cur == rate'[now].n
     IN reqs' = [reqs EXCEPT ![r] = IF cur = 1 THEN [rq EXCEPT !.pc = "expire"]
                                                 ELSE Admit(rq, cur)]
  /\ UNCHANGED <<now, stock, log, uuid, inits, ticks, decs, outage>>
  /\ UNCHANGED workerVars

\* the header check placed before the INCR: a request without token is not counted
OrderIncrHeaderFirst(r, p, u, k) ==
  /\ reqs[r].pc = "new"
  /\ outage = None
  /\ Arrives(r)
  /\ FreshOrUsed(k)
  /\ rate' = IF Falsy(k) THEN rate ELSE Incr(now)
  /\ LET rq == [reqs[r] EXCEPT !.productId = p, !.userId = u, !.key = k, !.sec = now]
     IN reqs' = [reqs EXCEPT ![r] =
          IF Falsy(k) THEN [rq EXCEPT !.pc = "done", !.reply = "bad_request"]
          ELSE IF rate'[now].n = 1 THEN [rq EXCEPT !.pc = "expire"]
          ELSE Admit(rq, rate'[now].n)]
  /\ UNCHANGED <<now, stock, marker, log, uuid, inits, ticks, decs, outage>>
  /\ UNCHANGED workerVars

\* a request arrives: currentSecond, INCR rate:{second}
OrderIncr(r, p, u, k) ==
  /\ reqs[r].pc = "new"
  /\ outage = None
  /\ Arrives(r)
  /\ FreshOrUsed(k)
  /\ rate' = Incr(now)
  /\ LET rq == [reqs[r] EXCEPT !.productId = p, !.userId = u, !.key = k, !.sec = now]
         cur == rate'[now].n
     IN reqs' = [reqs EXCEPT ![r] = IF cur = 1 THEN [rq EXCEPT !.pc = "expire"]
                                                 ELSE Admit(rq, cur)]
  /\ UNCHANGED <<now, stock, marker, log, uuid, inits, ticks, decs, outage>>
  /\ UNCHANGED workerVars

\* currentRate === 1: EXPIRE rate:{second} 2
OrderExpire(r) ==
  /\ reqs[r].pc = "expire"
  /\ outage = None
  /\ rate' = Expire(reqs[r].sec)
  /\ reqs' = [reqs EXCEPT ![r] = Admit(@, 1)]
  /\ UNCHANGED <<now, stock, marker, log, uuid, inits, ticks, decs, outage>>
  /\ UNCHANGED workerVars

\* a lookup that remembers accepted tokens for ever
OrderGetRemembers(r) ==
  /\ reqs[r].pc = "get"
  /\ outage = None
  /\ reqs' = [reqs EXCEPT ![r] =
       IF \/ marker[@.key] # None
          \/ \E a \in Requests : reqs[a].reply = "success" /\ reqs[a].key = reqs[r].key
         THEN [@ EXCEPT !.pc = "done", !.reply = "ignored"]
         ELSE [@ EXCEPT !.pc = "eval"]]
  /\ UNCHANGED <<now, stock, rate, marker, log, uuid, inits, ticks, decs, outage>>
  /\ UNCHANGED workerVars

\* a handler that looks at the stock before the marker
OrderGetStockFirst(r) ==
  /\ reqs[r].pc = "get"
  /\ outage = None
  /\ reqs' = [reqs EXCEPT ![r] =
       IF Current(@.productId) = 0 THEN [@ EXCEPT !.pc = "done", !.reply = "sold_out"]
       ELSE IF marker[@.key] # None THEN [@ EXCEPT !.pc = "done", !.reply = "ignored"]
       ELSE [@ EXCEPT !.pc = "eval"]]
  /\ UNCHANGED <<now, stock, rate, marker, log, uuid, inits, ticks, decs, outage>>
  /\ UNCHANGED workerVars

\* the handler without "if (processed)": the lookup's result is not used
OrderGetBlind(r) ==
  /\ reqs[r].pc = "get"
  /\ outage = None
  /\ reqs' = [reqs EXCEPT ![r] = [@ EXCEPT !.pc = "eval"]]
  /\ UNCHANGED <<now, stock, rate, marker, log, uuid, inits, ticks, decs, outage>>
  /\ UNCHANGED workerVars

\* Idempotency Check: GET idempotency:{key}
OrderGet(r) ==
  /\ reqs[r].pc = "get"
  /\ outage = None
  /\ reqs' = [reqs EXCEPT ![r] =
       IF marker[@.key] # None THEN [@ EXCEPT !.pc = "done", !.reply = "ignored"]
                               ELSE [@ EXCEPT !.pc = "eval"]]
  /\ UNCHANGED <<now, stock, rate, marker, log, uuid, inits, ticks, decs, outage>>
  /\ UNCHANGED workerVars

\* the handler without "if (success)": it produces whatever the script returned
OrderEvalUnchecked(r) ==
  /\ reqs[r].pc = "eval"
  /\ outage = None
  /\ LET p == reqs[r].productId
         success == ScriptResult(p, 1) = 1
     IN /\ stock' = ScriptStock(p, 1)
        /\ decs' = IF success THEN [decs EXCEPT ![p] = @ + 1] ELSE decs
        /\ reqs' = [reqs EXCEPT ![r] = [@ EXCEPT !.pc = "send", !.dec = IF success THEN 1 ELSE 0]]
  /\ UNCHANGED <<now, rate, marker, log, uuid, inits, ticks, outage>>
  /\ UNCHANGED workerVars

\* Atomic Decrement: decrementStock(productId, 1)
OrderEval(r) ==
  /\ reqs[r].pc = "eval"
  /\ outage = None
  /\ LET p == reqs[r].productId
         success == ScriptResult(p, 1) = 1
     IN /\ stock' = ScriptStock(p, 1)
        /\ decs' = IF success THEN [decs EXCEPT ![p] = @ + 1] ELSE decs
        /\ reqs' = [reqs EXCEPT ![r] =
             IF success THEN [@ EXCEPT !.pc = "send", !.dec = 1]
                        ELSE [@ EXCEPT !.pc = "done", !.reply = "sold_out"]]
  /\ UNCHANGED <<now, rate, marker, log, uuid, inits, ticks, outage>>
  /\ UNCHANGED workerVars

\* a message value whose orderId is a constant instead of uuidv4()
EnvelopeConstantId(id, rq, r) ==
  [orderId |-> 1, productId |-> rq.productId, userId |-> rq.userId,
   timestamp |-> now, req |-> r]

\* the message value: JSON.stringify({ orderId: uuidv4(), productId, userId, timestamp })
Envelope(id, rq, r) ==
  [orderId |-> id, productId |-> rq.productId, userId |-> rq.userId,
   timestamp |-> now, req |-> r]

\* a producer that resolves without an acknowledgement: the message is lost
OrderSendNoAck(r) ==
  /\ reqs[r].pc = "send"
  /\ uuid' = uuid + 1
  /\ reqs' = [reqs EXCEPT ![r] = [@ EXCEPT !.pc = "set", !.orderId = uuid']]
  /\ UNCHANGED <<now, stock, rate, marker, log, inits, ticks, decs, outage>>
  /\ UNCHANGED workerVars

\* a handler that also writes the order row itself
OrderSendWritesRow(r) ==
  /\ reqs[r].pc = "send"
  /\ uuid' = uuid + 1
  /\ log' = Append(log, Envelope(uuid', reqs[r], r))
  /\ orders' = Append(orders, [id |-> uuid', product_id |-> reqs[r].productId,
                               user_id |-> reqs[r].userId])
  /\ reqs' = [reqs EXCEPT ![r] = [@ EXCEPT !.pc = "set", !.orderId = uuid']]
  /\ UNCHANGED <<now, stock, rate, marker, inits, ticks, decs, outage>>
  /\ UNCHANGED <<products, worker, committed, crashes, stock0, hist>>

\* producer.send resolves: the broker has acknowledged the message
OrderSend(r) ==
  /\ reqs[r].pc = "send"
  /\ uuid' = uuid + 1
  /\ log' = Append(log, Envelope(uuid', reqs[r], r))
  /\ reqs' = [reqs EXCEPT ![r] = [@ EXCEPT !.pc = "set", !.orderId = uuid']]
  /\ UNCHANGED <<now, stock, rate, marker, inits, ticks, decs, outage>>
  /\ UNCHANGED workerVars

\* a catch block that gives the unit back: INCR product:{id}:stock
OrderSendFailCompensates(r) ==
  /\ reqs[r].pc = "send"
  /\ uuid' = uuid + 1
  /\ stock' = [stock EXCEPT ![reqs[r].productId] = Some(Current(reqs[r].productId) + 1)]
  /\ reqs' = [reqs EXCEPT ![r] = [@ EXCEPT !.pc = "done", !.reply = "failed"]]
  /\ UNCHANGED <<now, rate, marker, log, inits, ticks, decs, outage>>
  /\ UNCHANGED workerVars

\* a catch block that sets the idempotency marker
OrderSendFailMarks(r) ==
  /\ reqs[r].pc = "send"
  /\ uuid' = uuid + 1
  /\ marker' = [marker EXCEPT ![reqs[r].key] = Some(now + MarkerTtl)]
  /\ reqs' = [reqs EXCEPT ![r] = [@ EXCEPT !.pc = "done", !.reply = "failed"]]
  /\ UNCHANGED <<now, stock, rate, log, inits, ticks, decs, outage>>
  /\ UNCHANGED workerVars

\* producer.send rejects: catch, log, 500
OrderSendFail(r) ==
  /\ reqs[r].pc = "send"
  /\ uuid' = uuid + 1
  /\ reqs' = [reqs EXCEPT ![r] = [@ EXCEPT !.pc = "done", !.reply = "failed"]]
  /\ UNCHANGED <<now, stock, rate, marker, log, inits, ticks, decs, outage>>
  /\ UNCHANGED workerVars

\* the SET resolving although the counter store is unreachable
OrderSetOffline(r) ==
  /\ reqs[r].pc = "set"
  /\ marker' = [marker EXCEPT ![reqs[r].key] = Some(now + MarkerTtl)]
  /\ reqs' = [reqs EXCEPT ![r] = [@ EXCEPT !.pc = "done", !.reply = "success"]]
  /\ UNCHANGED <<now, stock, rate, log, uuid, inits, ticks, decs, outage>>
  /\ UNCHANGED workerVars

\* Mark Idempotency Key: SET idempotency:{key} 1 EX 60, then the 200 reply
OrderSet(r) ==
  /\ reqs[r].pc = "set"
  /\ outage = None
  /\ marker' = [marker EXCEPT ![reqs[r].key] = Some(now + MarkerTtl)]
  /\ reqs' = [reqs EXCEPT ![r] = [@ EXCEPT !.pc = "done", !.reply = "success"]]
  /\ UNCHANGED <<now, stock, rate, log, uuid, inits, ticks, decs, outage>>
  /\ UNCHANGED workerVars

\* a failed SET that leaves the marker behind
OrderSetFailMarked(r) ==
  /\ reqs[r].pc = "set"
  /\ marker' = [marker EXCEPT ![reqs[r].key] = Some(now + MarkerTtl)]
  /\ reqs' = [reqs EXCEPT ![r] = [@ EXCEPT !.pc = "done", !.reply = "failed"]]
  /\ UNCHANGED <<now, stock, rate, log, uuid, inits, ticks, decs, outage>>
  /\ UNCHANGED workerVars

\* a catch block that gives the unit back after a failed SET of the marker
OrderSetFailCompensates(r) ==
  /\ reqs[r].pc = "set"
  /\ stock' = [stock EXCEPT ![reqs[r].productId] = Some(Current(reqs[r].productId) + 1)]
  /\ reqs' = [reqs EXCEPT ![r] = [@ EXCEPT !.pc = "done", !.reply = "failed"]]
  /\ UNCHANGED <<now, rate, marker, log, uuid, inits, ticks, decs, outage>>
  /\ UNCHANGED workerVars

\* a catch block without "return": the handler falls through and replies with
\* an empty 200
OrderSetFailNoReturn(r) ==
  /\ reqs[r].pc = "set"
  /\ reqs' = [reqs EXCEPT ![r] = [@ EXCEPT !.pc = "done", !.reply = "empty"]]
  /\ UNCHANGED <<now, stock, rate, marker, log, uuid, inits, ticks, decs, outage>>
  /\ UNCHANGED workerVars

\* the SET rejects inside the try block: the same catch, 500
OrderSetFail(r) ==
  /\ reqs[r].pc = "set"
  /\ reqs' = [reqs EXCEPT ![r] = [@ EXCEPT !.pc = "done", !.reply = "failed"]]
  /\ UNCHANGED <<now, stock, rate, marker, log, uuid, inits, ticks, decs, outage>>
  /\ UNCHANGED workerVars

\* the INCR of an arriving request rejects: the framework's 500
OrderIncrFail(r, p, u, k) ==
  /\ reqs[r].pc = "new"
  /\ Arrives(r)
  /\ FreshOrUsed(k)
  /\ reqs' = [reqs EXCEPT ![r] = [@ EXCEPT !.productId = p, !.userId = u, !.key = k,
                                            !.sec = now, !.pc = "done", !.reply = "internal"]]
  /\ UNCHANGED <<now, stock, rate, marker, log, uuid, inits, ticks, decs, outage>>
  /\ UNCHANGED workerVars

\* EXPIRE, GET or EVAL rejects outside the try block: the framework's 500
OrderRedisFail(r) ==
  /\ reqs[r].pc \in {"expire", "get", "eval"}
  /\ reqs' = [reqs EXCEPT ![r] = [@ EXCEPT !.pc = "done", !.reply = "internal"]]
  /\ UNCHANGED <<now, stock, rate, marker, log, uuid, inits, ticks, decs, outage>>
  /\ UNCHANGED workerVars

\* the counter store becomes unreachable: from now on every call to it rejects;
\* the requests numbered above the arrivals so far arrive during the outage
RedisDown ==
  /\ outage = None
  /\ outage' = Some(Cardinality({r \in Requests : reqs[r].pc # "new"}))
  /\ UNCHANGED <<now, stock, rate, marker, log, uuid, reqs, inits, ticks, decs>>
  /\ UNCHANGED workerVars

\* the clock reaches a later second; expired keys are gone
Tick(d) ==
  /\ ticks < MaxTicks
  /\ ticks' = ticks + 1
  /\ now' = now + d
  /\ rate' = LiveRate(rate, now')
  /\ marker' = LiveMarker(marker, now')
  /\ UNCHANGED <<stock, log, uuid, reqs, inits, decs, outage>>
  /\ UNCHANGED workerVars

\* ------------------------------------------------------------ inventory worker

\* the offsets of the topic are 0-based: the message at offset o is log[o + 1]
Message == log[worker.pos + 1]

\* JSON.parse(message.value.toString()) returns: the value is the JSON text of an object
Parses(m) == "orderId" \in DOMAIN m

\* a message value that is not JSON text
Garbled == [raw |-> "not json"]

\* the messages of the log that JSON.parse rejects
Unparsable == {o \in 1..Len(log) : ~Parses(log[o])}

\* another producer writes a message that is not JSON text to the topic
ForeignProduce ==
  /\ Cardinality(Unparsable) < MaxForeign
  /\ log' = Append(log, Garbled)
  /\ UNCHANGED <<now, stock, rate, marker, uuid, reqs, inits, ticks, decs, outage>>
  /\ UNCHANGED workerVars

\* an Init DB whose seed statement overwrites: ON CONFLICT (id) DO UPDATE
BootstrapReseeds(tbl) ==
  [p \in DOMAIN tbl |-> IF p = SeedProduct THEN Some(SeedStock) ELSE tbl[p]]

\* Init DB: CREATE TABLE IF NOT EXISTS ...; INSERT ... ('iphone-15', 100) ON CONFLICT DO NOTHING
Bootstrap(tbl) ==
  [p \in DOMAIN tbl |-> IF p = SeedProduct /\ tbl[p] = None THEN Some(SeedStock) ELSE tbl[p]]

\* rows of orders with primary key id
RowsOf(id) == {i \in 1..Len(orders) : orders[i].id = id}

\* a consumer that joins at the end of the log instead of the committed offset
WStartAtEnd ==
  /\ worker.pc = "down"
  /\ products' = Bootstrap(products)
  /\ worker' = [pc |-> "idle", pos |-> Len(log), dec |-> FALSE]
  /\ UNCHANGED <<orders, committed, crashes, stock0, hist>>
  /\ UNCHANGED gateVars

\* the worker process starts: Init DB, then the consumer joins at the committed offset
WStart ==
  /\ worker.pc = "down"
  /\ products' = Bootstrap(products)
  /\ worker' = [pc |-> "idle", pos |-> committed, dec |-> FALSE]
  /\ UNCHANGED <<orders, committed, crashes, stock0, hist>>
  /\ UNCHANGED gateVars

\* eachMessage is called with the next message: JSON.parse, pool.connect, BEGIN
WBegin ==
  /\ worker.pc = "idle"
  /\ worker.pos < Len(log)
  /\ Parses(Message)
  /\ worker' = [worker EXCEPT !.pc = "update"]
  /\ hist' = [hist EXCEPT ![worker.pos + 1].seen = IF @ < 2 THEN @ + 1 ELSE @]
  /\ UNCHANGED <<products, orders, committed, crashes, stock0>>
  /\ UNCHANGED gateVars

\* eachMessage is called with a message that JSON.parse rejects: the SyntaxError
\* is thrown before the try block, the handler rejects, the consumer commits the
\* offsets resolved before and delivers the same message again
\* a consumer that goes on to the next message when the handler throws
WParseSkip ==
  /\ worker.pc = "idle"
  /\ worker.pos < Len(log)
  /\ ~Parses(Message)
  /\ worker' = [worker EXCEPT !.pos = @ + 1]
  /\ committed' = worker.pos
  /\ hist' = [hist EXCEPT ![worker.pos + 1].seen = IF @ < 2 THEN @ + 1 ELSE @,
                           ![worker.pos + 1].thrown = TRUE]
  /\ UNCHANGED <<products, orders, crashes, stock0>>
  /\ UNCHANGED gateVars

WParseThrow ==
  /\ worker.pc = "idle"
  /\ worker.pos < Len(log)
  /\ ~Parses(Message)
  /\ committed' = worker.pos
  /\ hist' = [hist EXCEPT ![worker.pos + 1].seen = IF @ < 2 THEN @ + 1 ELSE @,
                           ![worker.pos + 1].thrown = TRUE]
  /\ UNCHANGED <<products, orders, worker, crashes, stock0>>
  /\ UNCHANGED gateVars

\* pool.connect rejects: the error is thrown before the try block, the handler
\* rejects, the consumer commits the offsets resolved before and delivers the
\* same message again
WConnectFail ==
  /\ worker.pc = "idle"
  /\ worker.pos < Len(log)
  /\ Parses(Message)
  /\ committed' = worker.pos
  /\ hist' = [hist EXCEPT ![worker.pos + 1].seen = IF @ < 2 THEN @ + 1 ELSE @,
                           ![worker.pos + 1].thrown = TRUE]
  /\ UNCHANGED <<products, orders, worker, crashes, stock0>>
  /\ UNCHANGED gateVars

\* a query of the transaction rejects (query error, connection lost): catch
WQueryFail ==
  /\ worker.pc \in {"update", "rollback", "insert", "commit"}
  /\ worker' = [worker EXCEPT !.pc = "catch"]
  /\ UNCHANGED <<products, orders, committed, crashes, stock0, hist>>
  /\ UNCHANGED gateVars

\* the UPDATE with "AND stock >= 0"
RowCountFromZero(p) ==
  IF p \in DOMAIN products /\ products[p] # None /\ Val(products[p]) >= 0 THEN 1 ELSE 0

\* the UPDATE without "AND stock > 0"
RowCountUnguarded(p) ==
  IF p \in DOMAIN products /\ products[p] # None THEN 1 ELSE 0

\* UPDATE products SET stock = stock - 1 WHERE id = $1 AND stock > 0: res.rowCount
RowCount(p) ==
  IF p \in DOMAIN products /\ products[p] # None /\ Val(products[p]) > 0 THEN 1 ELSE 0

\* the UPDATE inside the transaction, then the test of res.rowCount
WUpdate ==
  /\ worker.pc = "update"
  /\ LET n == RowCount(Message.productId)
     IN /\ worker' = [worker EXCEPT !.pc = IF n = 0 THEN "rollback" ELSE "insert",
                                    !.dec = (n = 1)]
        /\ hist' = IF n = 0 THEN [hist EXCEPT ![worker.pos + 1].norow = TRUE] ELSE hist
  /\ UNCHANGED <<products, orders, committed, crashes, stock0>>
  /\ UNCHANGED gateVars

\* rowCount === 0: ROLLBACK; return; the handler resolves and the offset is resolved
WRollbackReturn ==
  /\ worker.pc = "rollback"
  /\ worker' = [worker EXCEPT !.pc = "idle", !.dec = FALSE, !.pos = @ + 1]
  /\ hist' = [hist EXCEPT ![worker.pos + 1].returned = TRUE]
  /\ UNCHANGED <<products, orders, committed, crashes, stock0>>
  /\ UNCHANGED gateVars

\* orders without its PRIMARY KEY: only the NOT NULL violation is left
InsertFailsNoKey(m) == m.userId = Undefined

\* INSERT INTO orders: a unique-key or NOT NULL violation rejects the query
InsertFails(m) == RowsOf(m.orderId) # {} \/ m.userId = Undefined

\* Insert Order
WInsert ==
  /\ worker.pc = "insert"
  /\ worker' = [worker EXCEPT !.pc = IF InsertFails(Message) THEN "catch" ELSE "commit"]
  /\ hist' = IF RowsOf(Message.orderId) # {}
               THEN [hist EXCEPT ![worker.pos + 1].conflict = TRUE] ELSE hist
  /\ UNCHANGED <<products, orders, committed, crashes, stock0>>
  /\ UNCHANGED gateVars

\* statements run outside a transaction, the INSERT lost: only the decrement lands
WCommitStockOnly ==
  /\ worker.pc = "commit"
  /\ products' = [products EXCEPT ![Message.productId] = Some(Val(@) - 1)]
  /\ worker' = [worker EXCEPT !.pc = "resolve", !.dec = FALSE]
  /\ hist' = [hist EXCEPT ![worker.pos + 1].commits = @ + 1]
  /\ UNCHANGED <<orders, committed, crashes, stock0>>
  /\ UNCHANGED gateVars

\* COMMIT: the decrement and the new row become durable together
WCommit ==
  /\ worker.pc = "commit"
  /\ LET m == Message
     IN /\ products' = [products EXCEPT ![m.productId] = Some(Val(@) - 1)]
        /\ orders' = Append(orders, [id |-> m.orderId, product_id |-> m.productId,
                                     user_id |-> m.userId])
  /\ worker' = [worker EXCEPT !.pc = "resolve", !.dec = FALSE]
  /\ hist' = [hist EXCEPT ![worker.pos + 1].commits = @ + 1]
  /\ UNCHANGED <<committed, crashes, stock0>>
  /\ UNCHANGED gateVars

\* the handler returns after COMMIT: the consumer resolves the offset
WResolve ==
  /\ worker.pc = "resolve"
  /\ worker' = [worker EXCEPT !.pc = "idle", !.pos = @ + 1]
  /\ hist' = [hist EXCEPT ![worker.pos + 1].returned = TRUE]
  /\ UNCHANGED <<products, orders, committed, crashes, stock0>>
  /\ UNCHANGED gateVars

\* a catch block whose ROLLBACK also removes the newest committed row
WCatchThrowUndoesRow ==
  /\ worker.pc = "catch"
  /\ worker' = [worker EXCEPT !.pc = "idle", !.dec = FALSE]
  /\ committed' = worker.pos
  /\ orders' = IF orders = <<>> THEN orders ELSE SubSeq(orders, 1, Len(orders) - 1)
  /\ hist' = [hist EXCEPT ![worker.pos + 1].thrown = TRUE]
  /\ UNCHANGED <<products, crashes, stock0>>
  /\ UNCHANGED gateVars

\* catch (e): ROLLBACK; throw e. The consumer commits the offsets resolved before
\* and delivers the same message again.
WCatchThrow ==
  /\ worker.pc = "catch"
  /\ worker' = [worker EXCEPT !.pc = "idle", !.dec = FALSE]
  /\ committed' = worker.pos
  /\ hist' = [hist EXCEPT ![worker.pos + 1].thrown = TRUE]
  /\ UNCHANGED <<products, orders, crashes, stock0>>
  /\ UNCHANGED gateVars

\* autoCommit: the consumer commits the resolved offsets at the end of a batch
WCommitOffsets ==
  /\ worker.pc = "idle"
  /\ committed < worker.pos
  /\ committed' = worker.pos
  /\ UNCHANGED <<products, orders, worker, crashes, stock0, hist>>
  /\ UNCHANGED gateVars

\* the worker process is killed: the open transaction and the in-memory offsets are lost
WCrash ==
  /\ worker.pc # "down"
  /\ crashes < MaxCrashes
  /\ crashes' = crashes + 1
  /\ worker' = [worker EXCEPT !.pc = "down", !.dec = FALSE]
  /\ UNCHANGED <<products, orders, committed, stock0, hist>>
  /\ UNCHANGED gateVars

\* ------------------------------------------------------------ specification

\* the durable stock a product has once the worker has started for the first time
InitialDurable(tbl, p) == IF Bootstrap(tbl)[p] = None THEN 0 ELSE Val(Bootstrap(tbl)[p])

NoHist == [seen |-> 0, commits |-> 0, norow |-> FALSE, conflict |-> FALSE,
           returned |-> FALSE, thrown |-> FALSE]

\* everything but the stock keys and the rate tallies
InitButStockAndRate ==
  /\ now = 0
  /\ marker = [k \in Tokens |-> None]
  /\ log = <<>>
  /\ uuid = 0
  /\ reqs = [r \in Requests |-> NewReq]
  /\ inits = [total |-> 0, n |-> [p \in Products |-> 0], qty |-> [p \in Products |-> 0],
              base |-> [p \in Products |-> 0]]
  /\ ticks = 0
  /\ decs = [p \in ReqProducts |-> 0]
  /\ \E left \in {None} \cup {Some(n) : n \in 0..MaxDbStock} :
       products = [p \in Products |-> IF p = SeedProduct THEN left ELSE None]
  /\ orders = <<>>
  /\ worker = [pc |-> "down", pos |-> 0, dec |-> FALSE]
  /\ committed = 0
  /\ crashes = 0
  /\ stock0 = [p \in Products |-> InitialDurable(products, p)]
  /\ hist = [o \in Offsets |-> NoHist]
  /\ outage = None

\* everything but the rate tallies: no stock key exists
InitButRate == InitButStockAndRate /\ stock = [p \in ReqProducts |-> None]

Init == InitButRate /\ rate = [s \in {} |-> [n |-> 0, exp |-> None]]

GateNext ==
  \/ \E p \in Products, q \in 0..MaxQty : InitStock(p, q)
  \/ \E r \in Requests, p \in ReqProducts, u \in Users, k \in ReqTokens :
       OrderIncr(r, p, u, k) \/ OrderIncrFail(r, p, u, k)
  \/ \E r \in Requests :
       \/ OrderExpire(r)
       \/ OrderGet(r)
       \/ OrderEval(r)
       \/ OrderSend(r)
       \/ OrderSendFail(r)
       \/ OrderSet(r)
       \/ OrderSetFail(r)
       \/ OrderRedisFail(r)
  \/ \E d \in {1, MarkerTtl} : Tick(d)

WorkerNext ==
  \/ WStart
  \/ WBegin
  \/ WUpdate
  \/ WRollbackReturn
  \/ WInsert
  \/ WCommit
  \/ WResolve
  \/ WCatchThrow
  \/ WCommitOffsets
  \/ WCrash

Next == GateNext \/ WorkerNext

Spec == Init /\ [][Next]_vars

\* the worker's steps other than its being killed
WorkerRun ==
  \/ WStart
  \/ WBegin
  \/ WUpdate
  \/ WRollbackReturn
  \/ WInsert
  \/ WCommit
  \/ WResolve
  \/ WCatchThrow
  \/ WCommitOffsets

\* the ingestion service alone, the worker not started and the record-of-truth new
GateInit == Init /\ products[SeedProduct] = None
GateSpec == GateInit /\ [][GateNext]_vars

\* The worker-crash chaos test: a new record-of-truth (the seed row at its seeded
\* stock), orders for the seeded product only, counter store, log and
\* record-of-truth available. The conditional decrement then always finds stock,
\* so the ROLLBACK-and-return branch is never entered. The worker is restarted
\* when it is down and its consumer loop keeps running (weak fairness).
RecoveryGate ==
  \/ \E q \in 0..MaxQty : InitStock(SeedProduct, q)
  \/ \E r \in Requests, u \in Users, k \in ReqTokens : OrderIncr(r, SeedProduct, u, k)
  \/ \E r \in Requests :
       \/ OrderExpire(r)
       \/ OrderGet(r)
       \/ OrderEval(r)
       \/ OrderSend(r)
       \/ OrderSet(r)

RecoveryWorker ==
  \/ WStart
  \/ WBegin
  \/ WUpdate
  \/ WInsert
  \/ WCommit
  \/ WResolve
  \/ WCatchThrow
  \/ WCommitOffsets
  \/ WCrash

RecoverySpec ==
  /\ GateInit
  /\ [][RecoveryGate \/ RecoveryWorker]_vars
  /\ WF_vars(WorkerRun)

\* POST /order and the clock: every step of the ingestion service but POST /init
OrderNext ==
  \/ \E r \in Requests, p \in ReqProducts, u \in Users, k \in ReqTokens :
       OrderIncr(r, p, u, k) \/ OrderIncrFail(r, p, u, k)
  \/ \E r \in Requests :
       \/ OrderExpire(r)
       \/ OrderGet(r)
       \/ OrderEval(r)
       \/ OrderSend(r)
       \/ OrderSendFail(r)
       \/ OrderSet(r)
       \/ OrderSetFail(r)
       \/ OrderRedisFail(r)
  \/ \E d \in {1, MarkerTtl} : Tick(d)

\* no order request has arrived yet
NoneArrived == \A r \in Requests : reqs[r].pc = "new"

\* The load test: setup() initialises the stock with POST /init before the first
\* virtual user sends an order; the orders then run concurrently.
LoadTestNext ==
  \/ \E p \in Products, q \in 0..MaxQty : NoneArrived /\ InitStock(p, q)
  \/ OrderNext

LoadTestSpec == GateInit /\ [][LoadTestNext]_vars

\* the ingestion service with a counter store that may become unreachable
OutageNext == GateNext \/ RedisDown

OutageSpec == GateInit /\ [][OutageNext]_vars

\* Admission and validation. The current second has already counted one request
\* less than the cap (requests without a token, which change nothing but the
\* tally); the body and the header of a request may lack any field, and the
\* header may be empty.
Preloaded == RateCap - 1
AnyUsers == Users \cup {Undefined}
AnyTokens == ReqTokens \cup {""}

AdmissionInit ==
  /\ InitButRate
  /\ products[SeedProduct] = None
  /\ rate = [s \in {0} |-> [n |-> Preloaded, exp |-> Some(RateTtl)]]

AdmissionNext ==
  \/ \E p \in Products, q \in 0..MaxQty : InitStock(p, q)
  \/ \E r \in Requests, p \in ReqProducts, u \in AnyUsers, k \in AnyTokens :
       OrderIncr(r, p, u, k) \/ OrderIncrFail(r, p, u, k)
  \/ \E r \in Requests :
       \/ OrderExpire(r)
       \/ OrderGet(r)
       \/ OrderEval(r)
       \/ OrderSend(r)
       \/ OrderSendFail(r)
       \/ OrderSet(r)
       \/ OrderSetFail(r)
       \/ OrderRedisFail(r)
  \/ \E d \in {1, MarkerTtl} : Tick(d)

AdmissionSpec == AdmissionInit /\ [][AdmissionNext]_vars

\* The topic is also written by a producer whose messages are not JSON text; the
\* record-of-truth is new and the orders are for the seeded product.
PoisonNext ==
  \/ RecoveryGate
  \/ ForeignProduce
  \/ RecoveryWorker
  \/ WParseThrow

PoisonSpec == GateInit /\ [][PoisonNext]_vars

\* The worker with a record-of-truth that may reject a connection or a query, and
\* that may be killed; a new record-of-truth, orders for the seeded product.
FaultNext ==
  \/ RecoveryGate
  \/ RecoveryWorker
  \/ WConnectFail
  \/ WQueryFail

FaultSpec == GateInit /\ [][FaultNext]_vars

\* The ingestion service started on a counter store whose stock keys were left by
\* an earlier sale: any product may have a stock key, with any quantity.
RestockInit ==
  /\ InitButStockAndRate
  /\ products[SeedProduct] = None
  /\ stock \in [ReqProducts -> {None} \cup {Some(n) : n \in 0..MaxQty}]
  /\ rate = [s \in {} |-> [n |-> 0, exp |-> None]]

RestockSpec == RestockInit /\ [][GateNext]_vars

\* ------------------------------------------------------------ properties

Replied(p, status) == {r \in Requests : reqs[r].productId = p /\ reqs[r].reply = status}
Accepted(p) == Replied(p, "success")
Events(p) == {o \in 1..Len(log) : log[o].productId = p}

\* C1: a product initialised once to N never has more than N requests answered
\* 'success', whatever the interleaving of the concurrent order requests.
C1_NoOversell ==
  \A p \in Products : inits.n[p] = 1 => Cardinality(Accepted(p)) <= inits.qty[p]

\* N requests were accepted for a product initialised once to N >= 1, and a
\* further request for it was answered 'sold_out'
C1_Witness ==
  \E p \in Products :
    /\ inits.n[p] = 1
    /\ inits.qty[p] >= 1
    /\ Cardinality(Accepted(p)) = inits.qty[p]
    /\ Replied(p, "sold_out") # {}

\* C2: the counter-store stock of a product initialised with a quantity >= 0 is
\* never negative.
C2_StockNonNegative ==
  \A p \in ReqProducts : stock[p] # None => Val(stock[p]) >= 0

\* the script brought a stock to 0 and then refused a request
C2_Witness ==
  \E p \in Products :
    /\ stock[p] = Some(0)
    /\ decs[p] >= 1
    /\ Replied(p, "sold_out") # {}

\* both requests ran to their reply without a failure of the counter store or the log
NoFailure(a, b) ==
  /\ reqs[a].pc = "done" /\ reqs[b].pc = "done"
  /\ reqs[a].reply \notin {"failed", "internal"}
  /\ reqs[b].reply \notin {"failed", "internal"}

\* C3: of two requests that carry the same idempotency token within the marker's
\* lifetime, at most one is answered 'success', the other is answered 'ignored',
\* and the stock is decremented at most once across the pair.
C3_IdempotentPair ==
  \A a, b \in Requests :
    (/\ a < b
     /\ ~Falsy(reqs[a].key)
     /\ reqs[a].key = reqs[b].key
     /\ ticks = 0
     /\ NoFailure(a, b))
    => /\ ~(reqs[a].reply = "success" /\ reqs[b].reply = "success")
       /\ ("success" \in {reqs[a].reply, reqs[b].reply}
             => "ignored" \in {reqs[a].reply, reqs[b].reply})
       /\ reqs[a].dec + reqs[b].dec <= 1

\* C10: a request answered 'success' has decremented the stock and its reservation
\* event is in the log; per product, accepted replies <= events in the log <=
\* successful decrements.
C10_AcceptedImpliesReserved ==
  /\ \A r \in Requests :
       reqs[r].reply = "success" =>
         /\ reqs[r].dec = 1
         /\ \E o \in 1..Len(log) : log[o].req = r /\ log[o].orderId = reqs[r].orderId
  /\ \A p \in ReqProducts :
       /\ Cardinality(Accepted(p)) <= Cardinality(Events(p))
       /\ Cardinality(Events(p)) <= decs[p]

\* one request of a product was accepted while another one lost its reservation
\* to a failed produce
C10_Witness ==
  \E p \in Products :
    /\ Accepted(p) # {}
    /\ Replied(p, "failed") # {}
    /\ Cardinality(Events(p)) < decs[p]

\* the orders rows of a product
RowsFor(p) == {i \in 1..Len(orders) : orders[i].product_id = p}

\* the handler has run to its end (return or throw) for the message at offset o - 1
Ended(o) == hist[o].returned \/ hist[o].thrown

\* C4: once the worker has processed the message of a request answered 'success',
\* an orders row with the request's reservation id exists.
C4_EventualPersistence ==
  \A r \in Requests : \A o \in 1..Len(log) :
    (reqs[r].reply = "success" /\ log[o].req = r /\ hist[o].returned)
      => RowsOf(log[o].orderId) # {}

\* C5 as stated: a message delivered once or more leaves exactly one orders row
\* with its reservation id and exactly one net decrement of the durable stock.
C5_ReplayExactlyOne ==
  \A o \in 1..Len(log) :
    Ended(o) => Cardinality(RowsOf(log[o].orderId)) = 1 /\ hist[o].commits = 1

\* C5 (amended): a message delivered any number of times leaves at most one orders
\* row with its reservation id and at most one net decrement of the durable stock:
\* exactly one of each from the first delivery whose transaction commits, none as
\* long as every delivery was rolled back; the durable stock of a product is its
\* initial stock minus the number of its orders rows.
C5_ReplayAtMostOne ==
  /\ \A o \in 1..Len(log) :
       LET n == Cardinality(RowsOf(log[o].orderId))
       IN /\ n <= 1
          /\ hist[o].commits = n
  /\ \A p \in Products :
       products[p] # None => Val(products[p]) = stock0[p] - Cardinality(RowsFor(p))

\* a message was delivered again after its row was committed: the insert hit the
\* unique key, and there is still one row and one decrement
C5_Witness ==
  \E o \in 1..Len(log) :
    /\ hist[o].seen >= 2
    /\ hist[o].conflict
    /\ hist[o].thrown
    /\ Cardinality(RowsOf(log[o].orderId)) = 1
    /\ hist[o].commits = 1
    /\ Val(products[log[o].productId]) = stock0[log[o].productId] - 1

\* C6: after a unique-key conflict on the insert the worker rolls back and the
\* message's offset is resolved, so that the message is not delivered again.
C6_ConflictAbsorbed ==
  [][(worker.pc = "catch" /\ hist[worker.pos + 1].conflict /\ worker'.pc = "idle")
       => worker'.pos = worker.pos + 1]_vars

\* the worker has no message left to handle
CaughtUp == worker.pc = "idle" /\ worker.pos = Len(log)

\* C7: a worker that was killed and restarted eventually catches up on the log,
\* and then there is one orders row per reservation event, no reservation id has
\* two rows, and the durable stock is the initial one minus the number of events.
C7_CrashRecovery ==
  /\ (crashes >= 1) ~> CaughtUp
  /\ [](crashes >= 1 /\ CaughtUp =>
          /\ Len(orders) = Len(log)
          /\ \A o \in 1..Len(log) : Cardinality(RowsOf(log[o].orderId)) = 1
          /\ \A p \in Products :
               products[p] # None => Val(products[p]) = stock0[p] - Cardinality(Events(p)))

\* C8: a message whose conditional decrement affected zero rows is rolled back
\* and its offset is never committed.
C8_DivergenceNotCommitted ==
  \A o \in 1..Len(log) :
    (hist[o].norow /\ RowsOf(log[o].orderId) = {}) => committed < o

\* C9: the orders rows of a product never outnumber its initial durable stock.
C9_DurableNoOversell ==
  \A p \in Products : Cardinality(RowsFor(p)) <= stock0[p]

\* the durable stock of a product is sold out and a further reservation event of
\* that product was refused by the conditional decrement
C9_Witness ==
  \E p \in Products :
    /\ stock0[p] >= 1
    /\ Cardinality(RowsFor(p)) = stock0[p]
    /\ products[p] = Some(0)
    /\ \E o \in 1..Len(log) :
         log[o].productId = p /\ hist[o].norow /\ RowsOf(log[o].orderId) = {}

\* the requests that have arrived for product p
Arrived(p) == {r \in Requests : reqs[r].pc # "new" /\ reqs[r].productId = p}

\* the smaller of two numbers
Min(a, b) == IF a < b THEN a ELSE b

\* C11: a product is initialised to N, then M requests with pairwise distinct
\* tokens arrive for it, all admitted and valid, none hit by a failure of the
\* counter store or the log: once all are answered, exactly min(N, M) are
\* answered 'success', the other M - min(N, M) 'sold_out', and the stock is
\* N - min(N, M).
C11_ExactSellThrough ==
  \A p \in Products :
    LET R == Arrived(p)
        N == inits.qty[p]
        M == Cardinality(R)
    IN (/\ inits.n[p] = 1
        /\ \A r \in R :
             /\ reqs[r].pc = "done"
             /\ ~Falsy(reqs[r].key)
             /\ reqs[r].reply \notin {"redirect", "bad_request", "failed", "internal"}
        /\ \A a, b \in R : a # b => reqs[a].key # reqs[b].key)
       => /\ Cardinality(Replied(p, "success")) = Min(N, M)
          /\ Cardinality(Replied(p, "sold_out")) = M - Min(N, M)
          /\ stock[p] = Some(N - Min(N, M))

\* two requests with distinct tokens competed for a product initialised to 1:
\* one was answered 'success', the other 'sold_out', and the stock is 0
C11_Witness ==
  \E p \in Products :
    /\ inits.n[p] = 1
    /\ inits.qty[p] = 1
    /\ Cardinality(Arrived(p)) = 2
    /\ \A a, b \in Arrived(p) : a # b => reqs[a].key # reqs[b].key
    /\ Cardinality(Replied(p, "success")) = 1
    /\ Cardinality(Replied(p, "sold_out")) = 1
    /\ stock[p] = Some(0)

\* no request is answered 'success' in this step
NoNewSuccess == \A r \in Requests : reqs'[r].reply = "success" => reqs[r].reply = "success"

\* C12 as stated: while the counter store is unreachable no request is answered
\* 'success' and no reservation event is appended to the log.
C12_FailClosed ==
  [][outage # None => NoNewSuccess /\ log' = log]_vars

\* C12 (amended): while the counter store is unreachable no request is answered
\* 'success'; a request that arrives during the outage is answered 500 and
\* neither decrements the stock nor appends an event; an event appended during
\* the outage belongs to a request whose script had returned 1 before it.
C12_FailClosedArrivals ==
  /\ [][outage # None =>
          /\ NoNewSuccess
          /\ log' # log =>
                \E r \in Requests :
                  /\ r <= Val(outage)
                  /\ reqs[r].pc = "send" /\ reqs[r].dec = 1
                  /\ log' = Append(log, Envelope(uuid', reqs[r], r))]_vars
  /\ [](outage # None =>
          \A r \in Requests :
            (r > Val(outage) /\ reqs[r].pc # "new") =>
              /\ reqs[r].reply = "internal"
              /\ reqs[r].dec = 0
              /\ \A o \in 1..Len(log) : log[o].req # r)

\* the counter store went down while a request was between its script and its
\* produce: its event was appended and it was answered 500; a request that
\* arrived during the outage was answered 500 at once
C12_Witness ==
  /\ outage # None
  /\ \E a, b \in Requests :
       /\ a <= Val(outage) /\ b > Val(outage)
       /\ reqs[a].reply = "failed" /\ reqs[a].orderId # 0
       /\ \E o \in 1..Len(log) : log[o].req = a
       /\ reqs[b].reply = "internal"

\* C13: a request whose idempotency lookup finds the marker of its token is
\* answered 'ignored' by that step, which leaves the stock, the log and the
\* markers unchanged, whatever the stock is; such a request never decrements the
\* stock and never has an event in the log.
C13_DuplicateIgnored ==
  /\ [][\A r \in Requests :
          (/\ reqs[r].pc = "get"
           /\ marker[reqs[r].key] # None
           /\ reqs'[r] # reqs[r]
           /\ reqs'[r].reply # "internal")
          => /\ reqs'[r].pc = "done"
             /\ reqs'[r].reply = "ignored"
             /\ stock' = stock
             /\ log' = log
             /\ marker' = marker]_vars
  /\ [](\A r \in Requests :
          reqs[r].reply = "ignored" =>
            /\ reqs[r].dec = 0
            /\ \A o \in 1..Len(log) : log[o].req # r)

\* a request was answered 'ignored' while units of its product were in stock
C13_Witness ==
  \E r \in Requests :
    /\ reqs[r].reply = "ignored"
    /\ marker[reqs[r].key] # None
    /\ Current(reqs[r].productId) >= 1

\* the INCR of request r is served in this step
Counts(r) == reqs[r].pc = "new" /\ reqs'[r].pc # "new" /\ rate' # rate

\* the events of request r in the log
EventsOf(r) == {o \in 1..Len(log) : log[o].req = r}

\* C14: a request whose INCR yields a count above the cap is answered 302 by that
\* very step, before any validation or idempotency lookup; the step adds one to
\* the tally and leaves stock, markers and log unchanged; a throttled request
\* never decrements the stock and has no event.
C14_ThrottledTouchesTallyOnly ==
  /\ [][\A r \in Requests :
          (Counts(r) /\ rate'[now].n > RateCap)
          => /\ reqs'[r].pc = "done"
             /\ reqs'[r].reply = "redirect"
             /\ rate' = [rate EXCEPT ![now].n = @ + 1]
             /\ stock' = stock
             /\ marker' = marker
             /\ log' = log]_vars
  /\ [](\A r \in Requests :
          reqs[r].reply = "redirect" => reqs[r].dec = 0 /\ EventsOf(r) = {})

\* a request without token was throttled, not rejected, while its product was in
\* stock and the tally stands above the cap
C14_Witness ==
  \E r \in Requests :
    /\ reqs[r].reply = "redirect"
    /\ Falsy(reqs[r].key)
    /\ Current(reqs[r].productId) >= 1
    /\ reqs[r].sec \in DOMAIN rate
    /\ rate[reqs[r].sec].n > RateCap

\* the requests counted in second s before the first request of the behaviour
Earlier(s) == IF s = 0 THEN Preloaded ELSE 0

\* the requests counted in second s that went past the threshold
Proceeded(s) ==
  {r \in Requests : /\ reqs[r].pc # "new"
                    /\ reqs[r].sec = s
                    /\ reqs[r].reply \notin {"redirect", "internal"}}

\* C15: the k-th request counted in a second is throttled if and only if k is
\* above the cap, each counted request adds one to the tally of its second, and
\* at most cap requests counted in one second go past the threshold.
C15_AdmissionCap ==
  /\ [][\A r \in Requests :
          Counts(r)
          => /\ rate'[now].n = (IF now \in DOMAIN rate THEN rate[now].n ELSE 0) + 1
             /\ reqs'[r].reply = "redirect" <=> rate'[now].n > RateCap]_vars
  /\ [](\A s \in 0..now : Earlier(s) + Cardinality(Proceeded(s)) <= RateCap)

\* in one second the request counted as number cap went on and the next one was
\* throttled
C15_Witness ==
  \E a, b \in Requests :
    /\ reqs[a].sec = reqs[b].sec
    /\ reqs[a].sec \in DOMAIN rate
    /\ rate[reqs[a].sec].n = RateCap + 1
    /\ reqs[a].pc # "new" /\ reqs[a].reply \notin {"redirect", "internal"}
    /\ reqs[b].reply = "redirect"

\* C16: a request whose productId or userId is missing is answered 400 and reaches
\* neither the idempotency lookup nor the reservation script.
C16_MissingFieldRejected ==
  \A r \in Requests :
    (reqs[r].pc # "new" /\ Undefined \in {reqs[r].productId, reqs[r].userId})
    => /\ reqs[r].pc \in {"expire", "done"}
       /\ reqs[r].reply \in {"none", "redirect", "bad_request", "internal"}
       /\ reqs[r].dec = 0

\* C17: an admitted request whose token is missing or empty is answered 400 once
\* its INCR (and, for the first request of a second, its EXPIRE) is served: the
\* INCR has added one to the tally, and no step of the request changes stock,
\* markers or log; it never decrements the stock and has no event.
C17_MissingTokenRejected ==
  /\ [][\A r \in Requests :
          (/\ reqs'[r] # reqs[r]
           /\ Falsy(reqs'[r].key)
           /\ reqs'[r].reply \notin {"redirect", "internal"})
          => /\ stock' = stock
             /\ marker' = marker
             /\ log' = log
             /\ reqs[r].pc = "new" =>
                  /\ rate' = Incr(now)
                  /\ reqs'[r].pc = "expire" \/ reqs'[r].reply = "bad_request"
             /\ reqs[r].pc # "new" =>
                  /\ reqs[r].pc = "expire"
                  /\ reqs'[r].reply = "bad_request"]_vars
  /\ [](\A r \in Requests :
          reqs[r].reply = "bad_request" =>
            /\ Falsy(reqs[r].key)
            /\ reqs[r].dec = 0
            /\ EventsOf(r) = {})

\* a request with an empty token was answered 400 and counted in the tally of
\* its second, while its product was in stock
C17_Witness ==
  \E r \in Requests :
    /\ reqs[r].reply = "bad_request"
    /\ reqs[r].key = ""
    /\ reqs[r].sec \in DOMAIN rate
    /\ rate[reqs[r].sec].n >= 1
    /\ Current(reqs[r].productId) >= 1

\* request r was answered 500 because its produce was rejected
ProduceFailed(r) == reqs[r].reply = "failed" /\ reqs[r].orderId = 0

\* C18: a request whose produce fails after its script returned 1 is answered 500
\* by the step of the failure, which leaves stock, log and markers unchanged; the
\* request has decremented the stock, has no event in the log, and no step other
\* than POST /init ever raises a stock: a change of a stock key is a decrement by 1.
C18_ProduceFailureWindow ==
  /\ [][\A r \in Requests :
          (reqs[r].pc = "send" /\ reqs'[r].pc = "done")
          => /\ reqs'[r].reply = "failed"
             /\ reqs[r].dec = 1
             /\ stock' = stock
             /\ log' = log
             /\ marker' = marker]_vars
  /\ [][inits' = inits =>
          \A p \in ReqProducts :
            stock'[p] # stock[p] =>
              stock[p] # None /\ stock'[p] = Some(Val(stock[p]) - 1)]_vars
  /\ [](\A r \in Requests : ProduceFailed(r) => reqs[r].dec = 1 /\ EventsOf(r) = {})

\* the only request of a product initialised once lost its produce: the stock is
\* one below the initial quantity, the log is empty and the token has no marker
C18_Witness ==
  \E r \in Requests :
    LET p == reqs[r].productId
    IN /\ ProduceFailed(r)
       /\ Arrived(p) = {r}
       /\ inits.n[p] = 1
       /\ stock[p] = Some(inits.qty[p] - 1)
       /\ log = <<>>
       /\ marker[reqs[r].key] = None

\* b carries the token of a, whose produce failed, and no other request carries it
RetryOf(a, b) ==
  /\ a # b
  /\ ProduceFailed(a)
  /\ reqs[b].key = reqs[a].key
  /\ \A c \in Requests \ {a, b} : reqs[c].key # reqs[a].key

\* C19: a request that carries the token of a request whose produce failed is not
\* treated as a duplicate: its lookup finds no marker and it goes on to the
\* script, which reserves a unit if one is in stock; once it is answered
\* 'success' or 500 the pair has decremented the stock twice and has at most one
\* event in the log.
C19_RetryReservesAgain ==
  /\ [][\A a, b \in Requests :
          (RetryOf(a, b) /\ reqs'[b] # reqs[b] /\ reqs'[b].reply # "internal")
          => /\ reqs[b].pc = "get" => reqs'[b].pc = "eval"
             /\ (reqs[b].pc = "eval" /\ Current(reqs[b].productId) >= 1) =>
                  /\ reqs'[b].dec = 1
                  /\ stock' = [stock EXCEPT ![reqs[b].productId] = Some(Val(@) - 1)]]_vars
  /\ [](\A a, b \in Requests :
          RetryOf(a, b) =>
            /\ reqs[b].reply # "ignored"
            /\ reqs[b].reply \in {"success", "failed"} =>
                 /\ reqs[a].dec + reqs[b].dec = 2
                 /\ Cardinality(EventsOf(a) \cup EventsOf(b)) <= 1)

\* after a failed produce the retry with the same token was answered 'success':
\* the product initialised once to 2 is at 0 and the log has one event
C19_Witness ==
  \E a, b \in Requests :
    LET p == reqs[a].productId
    IN /\ a < b
       /\ RetryOf(a, b)
       /\ reqs[b].productId = p
       /\ reqs[b].reply = "success"
       /\ inits.n[p] = 1 /\ inits.qty[p] = 2
       /\ stock[p] = Some(0)
       /\ Len(log) = 1

\* C20: a message that the worker cannot parse is skipped: once it was delivered
\* the worker's offset is past it, it is not delivered again and its handler did
\* not throw; the record-of-truth has no row for it (a worker that was never
\* killed, so that no delivery is a replay after a restart).
C20_PoisonSkipped ==
  \A o \in Unparsable :
    (crashes = 0 /\ hist[o].seen >= 1)
    => /\ worker.pos >= o
       /\ hist[o].seen = 1
       /\ ~hist[o].thrown
       /\ hist[o].commits = 0

\* the worker is inside the transaction of a message, before its COMMIT
InTransaction == worker.pc \in {"update", "insert", "commit", "catch"}

\* C21: when the handling of a message ends before its transaction has committed
\* (the worker is killed, the connection or a query fails), products and orders
\* are as before, the offset committed is not past the message and a handler that
\* threw stays on the message; a restarted worker resumes at the committed offset;
\* the offset of a message is committed only after its handler has returned, and
\* a message whose handler has not returned is still ahead of the worker, so it
\* is delivered again.
C21_NoLossBeforeCommit ==
  /\ [][(InTransaction /\ worker'.pc \in {"down", "idle", "catch"})
          => /\ products' = products
             /\ orders' = orders
             /\ committed' <= worker.pos
             /\ worker'.pc = "idle" => worker'.pos = worker.pos]_vars
  /\ [][(worker.pc = "down" /\ worker'.pc # "down") => worker'.pos = committed]_vars
  /\ [](\A o \in 1..Len(log) :
          ~hist[o].returned =>
            /\ committed < o
            /\ worker.pc # "down" => worker.pos < o
            /\ hist[o].commits = 0 => RowsOf(log[o].orderId) = {})

\* the worker was killed inside the transaction of a message; after the restart
\* the message was delivered again and committed: one row, one decrement
C21_Witness ==
  \E o \in 1..Len(log) :
    /\ crashes >= 1
    /\ hist[o].seen >= 2
    /\ ~hist[o].thrown
    /\ ~hist[o].conflict
    /\ hist[o].returned
    /\ hist[o].commits = 1
    /\ Cardinality(RowsOf(log[o].orderId)) = 1
    /\ Val(products[log[o].productId]) = stock0[log[o].productId] - 1

\* the handler of request r is past the idempotency lookup, which found no marker
PastLookup(r) == reqs[r].pc \in {"eval", "send", "set"}

\* C22: a request that passed admission and validation and whose lookup found no
\* marker ends with one of 'success', 'sold_out' or a 500; a request has a reply
\* exactly when its handler has ended, and the reply of an ended handler never
\* changes: one reply per request.
C22_RequestAccounting ==
  /\ [][\A r \in Requests :
          (PastLookup(r) /\ reqs'[r] # reqs[r])
          => \/ PastLookup(r)' /\ reqs'[r].reply = "none"
             \/ /\ reqs'[r].pc = "done"
                /\ reqs'[r].reply \in {"success", "sold_out", "failed", "internal"}]_vars
  /\ [][\A r \in Requests : reqs[r].pc = "done" => reqs'[r] = reqs[r]]_vars
  /\ [](\A r \in Requests : reqs[r].reply # "none" <=> reqs[r].pc = "done")

\* all requests have ended: one was answered 'sold_out', another one 500 after
\* its event was logged
C22_Witness ==
  /\ \A r \in Requests : reqs[r].pc = "done"
  /\ \E a, b \in Requests :
       /\ reqs[a].reply = "sold_out"
       /\ reqs[b].reply = "failed"
       /\ EventsOf(b) # {}

\* C23: POST /init sets the stock key of its product to its quantity whatever
\* the key held, and changes no other stock key, no rate tally, no marker, nothing
\* in the log and nothing in the record-of-truth; setting the same quantity a
\* second time gives the state the first time gave.
C23_InitOverwrites ==
  /\ [][inits' # inits =>
          \E p \in Products, q \in 0..MaxQty :
            /\ inits'.n[p] = inits.n[p] + 1
            /\ inits'.qty[p] = q
            /\ stock'[p] = Some(q)
            /\ \A o \in ReqProducts \ {p} : stock'[o] = stock[o]
            /\ stock' = SetStock(stock, p, q)
            /\ rate' = rate
            /\ marker' = marker
            /\ log' = log
            /\ products' = products
            /\ orders' = orders]_vars
  /\ [](\A p \in Products, q \in 0..MaxQty :
          SetStock(SetStock(stock, p, q), p, q) = SetStock(stock, p, q))

\* a product whose stock had been decremented below the largest quantity was
\* initialised to the largest quantity, and holds exactly that
C23_Witness ==
  \E p \in Products :
    /\ inits.n[p] = 1
    /\ inits.qty[p] = MaxQty
    /\ decs[p] >= 1
    /\ stock[p] = Some(MaxQty)

\* C24: with the stock initialised before the first order and not again, once a
\* request for a product was answered 'sold_out' the reservation script returns 1
\* for no request of that product any more, so no later request for it is
\* answered 'success'; a step other than POST /init never raises a stock.
C24_SoldOutTerminal ==
  /\ [][\A b \in Requests :
          (reqs[b].dec = 0 /\ reqs'[b].dec = 1)
          => Replied(reqs[b].productId, "sold_out") = {}]_vars
  /\ [][inits' = inits => \A p \in ReqProducts : Current(p)' <= Current(p)]_vars
  /\ [][\A a \in Requests :
          (reqs[a].reply = "none" /\ reqs'[a].reply = "sold_out")
          => Current(reqs[a].productId) = 0 /\ stock' = stock]_vars

\* a product initialised once: a request for it was answered 'sold_out', and so
\* was the other request for it
C24_Witness ==
  \E p \in Products :
    /\ inits.n[p] = 1
    /\ Cardinality(Replied(p, "sold_out")) = 2
    /\ Accepted(p) = {}
    /\ Current(p) = 0

\* C25 as stated: the step that answers a request 400 or 302 changes nothing in
\* the counter store, the log or the record-of-truth.
C25_RejectedTouchesNothing ==
  [][\A r \in Requests :
       (reqs[r].reply = "none" /\ reqs'[r].reply \in {"redirect", "bad_request"})
       => /\ stock' = stock
          /\ rate' = rate
          /\ marker' = marker
          /\ log' = log
          /\ products' = products
          /\ orders' = orders]_vars

\* C25 (amended): the steps of a request answered 400 or 302 change nothing but the
\* rate tally of its second (the INCR on arrival, the EXPIRE of the first request
\* of a second): stock keys, markers, log and record-of-truth are unchanged.
C25_RejectedTouchesTallyOnly ==
  [][\A r \in Requests :
       (/\ reqs'[r] # reqs[r]
        /\ \/ reqs'[r].reply \in {"redirect", "bad_request"}
           \/ Falsy(reqs'[r].key) /\ reqs'[r].pc = "expire")
       => /\ stock' = stock
          /\ marker' = marker
          /\ log' = log
          /\ products' = products
          /\ orders' = orders
          /\ rate' = IF reqs[r].pc = "new" THEN Incr(now) ELSE Expire(reqs[r].sec)]_vars

\* one request was answered 400 and the next one 302: both are in the tally of
\* their second, the log is empty and an initialised stock is as initialised
C25_Witness ==
  \E a, b \in Requests :
    /\ reqs[a].reply = "bad_request"
    /\ reqs[b].reply = "redirect"
    /\ reqs[a].sec = reqs[b].sec
    /\ reqs[a].sec \in DOMAIN rate
    /\ rate[reqs[a].sec].n = Preloaded + 2
    /\ log = <<>>
    /\ \E p \in Products : inits.n[p] = 1 /\ stock[p] = Some(inits.qty[p])

\* C26: a request that is answered 500 after admission, whichever call failed
\* (the idempotency lookup, the reservation script, the produce or the SET of the
\* marker), gets the body {status: "error", msg: "Order processing failed"}:
\* the reply 'failed', not the framework's own error body ('internal').
C26_StableErrorBody ==
  [][\A r \in Requests :
       (reqs[r].pc \in {"get", "eval", "send", "set"} /\ reqs'[r].reply \in {"failed", "internal"})
       => reqs'[r].reply = "failed"]_vars

\* C27: while the marker of a token is present, the log holds an event of a
\* request that carried the token; a marker is set only by the step that answers
\* 'success', taken by a request whose event is in the log: never before the
\* produce, nor on the sold-out, bad-request, throttled or failed-produce paths.
C27_MarkerAfterHandoff ==
  /\ [](\A t \in Tokens :
          marker[t] # None => \E o \in 1..Len(log) : reqs[log[o].req].key = t)
  /\ [][\A t \in Tokens :
          (marker'[t] # marker[t] /\ marker'[t] # None)
          => \E r \in Requests :
               /\ reqs[r].key = t
               /\ reqs[r].pc = "set"
               /\ reqs'[r].reply = "success"
               /\ EventsOf(r) # {}]_vars

\* the token of an accepted request is marked and its event is in the log, while
\* the token of a request whose produce failed is not marked
C27_Witness ==
  \E a, b \in Requests :
    /\ reqs[a].reply = "success"
    /\ marker[reqs[a].key] # None
    /\ EventsOf(a) # {}
    /\ ProduceFailed(b)
    /\ reqs[b].key # reqs[a].key
    /\ marker[reqs[b].key] = None

\* request r was answered 500 because the SET of its marker was rejected
SetFailed(r) == reqs[r].reply = "failed" /\ reqs[r].orderId # 0

\* b carries the token of a, whose SET failed, and no other request carries it
RetryOfSetFailed(a, b) ==
  /\ a # b
  /\ SetFailed(a)
  /\ reqs[b].key = reqs[a].key
  /\ \A c \in Requests \ {a, b} : reqs[c].key # reqs[a].key

\* C28: a request whose produce succeeded and whose SET of the marker fails is
\* answered 500 although its event is in the log, and the step leaves markers,
\* stock and log unchanged; a request that carries the same token is then not a
\* duplicate: its lookup finds no marker, it runs the script, and once it got past
\* its own produce the pair has decremented the stock twice and has two events
\* with two reservation ids in the log.
C28_MarkerSetFailureWindow ==
  /\ [][\A r \in Requests :
          (reqs[r].pc = "set" /\ reqs'[r] # reqs[r] /\ reqs'[r].reply # "success")
          => /\ reqs'[r].reply = "failed"
             /\ EventsOf(r) # {}
             /\ marker' = marker
             /\ stock' = stock
             /\ log' = log]_vars
  /\ [](\A r \in Requests :
          SetFailed(r) => reqs[r].dec = 1 /\ Cardinality(EventsOf(r)) = 1)
  /\ [][\A a, b \in Requests :
          (RetryOfSetFailed(a, b) /\ reqs'[b] # reqs[b] /\ reqs'[b].reply # "internal")
          => /\ reqs[b].pc = "get" => reqs'[b].pc = "eval"
             /\ (reqs[b].pc = "eval" /\ Current(reqs[b].productId) >= 1) =>
                  /\ reqs'[b].dec = 1
                  /\ stock' = [stock EXCEPT ![reqs[b].productId] = Some(Val(@) - 1)]]_vars
  /\ [](\A a, b \in Requests :
          RetryOfSetFailed(a, b) =>
            /\ reqs[b].reply # "ignored"
            /\ (reqs[b].reply = "success" \/ SetFailed(b)) =>
                 /\ reqs[a].dec + reqs[b].dec = 2
                 /\ Cardinality(EventsOf(a) \cup EventsOf(b)) = 2
                 /\ reqs[a].orderId # reqs[b].orderId)

\* the SET of a request failed after its event was logged; the retry with the
\* same token was answered 'success': two events for one token, the product
\* initialised once to 2 is at 0
C28_Witness ==
  \E a, b \in Requests :
    LET p == reqs[a].productId
    IN /\ a < b
       /\ RetryOfSetFailed(a, b)
       /\ reqs[b].productId = p
       /\ reqs[b].reply = "success"
       /\ inits.n[p] = 1 /\ inits.qty[p] = 2
       /\ stock[p] = Some(0)
       /\ Len(log) = 2

\* the awaits of the handler in the order of the code
Stage(pc) ==
  CASE pc = "new" -> 0
    [] pc = "expire" -> 1
    [] pc = "get" -> 2
    [] pc = "eval" -> 3
    [] pc = "send" -> 4
    [] pc = "set" -> 5
    [] pc = "done" -> 6

\* a step of request r in which no call to the counter store or the log rejects
Served(r) == reqs'[r] # reqs[r] /\ reqs'[r].reply \notin {"failed", "internal"}

\* C29: a handler only moves forward through admission, validation, lookup,
\* reservation, handoff and marking, and each of its steps is decided by the first
\* guard alone: over the cap it answers 302 whatever the token and its marker;
\* under the cap it answers 400 for a missing token; a marked token is answered
\* 'ignored' whatever the stock; only then the script decides between the produce
\* and 'sold_out', and only a served produce and SET give 'success'.
C29_GuardOrder ==
  /\ [][\A r \in Requests :
          reqs'[r] # reqs[r] => Stage(reqs'[r].pc) > Stage(reqs[r].pc)]_vars
  /\ [][\A r \in Requests :
          Counts(r) =>
            LET cur == rate'[now].n
            IN /\ cur > RateCap => reqs'[r].reply = "redirect"
               /\ cur = 1 => reqs'[r].pc = "expire"
               /\ (1 < cur /\ cur <= RateCap) =>
                    IF Falsy(reqs'[r].key) THEN reqs'[r].reply = "bad_request"
                                           ELSE reqs'[r].pc = "get"]_vars
  /\ [][\A r \in Requests :
          Served(r) =>
            /\ reqs[r].pc = "expire" =>
                 IF Falsy(reqs[r].key) THEN reqs'[r].reply = "bad_request"
                                       ELSE reqs'[r].pc = "get"
            /\ reqs[r].pc = "get" =>
                 IF marker[reqs[r].key] # None THEN reqs'[r].reply = "ignored"
                                               ELSE reqs'[r].pc = "eval"
            /\ reqs[r].pc = "eval" =>
                 IF Current(reqs[r].productId) >= 1 THEN reqs'[r].pc = "send"
                                                    ELSE reqs'[r].reply = "sold_out"
            /\ reqs[r].pc = "send" => reqs'[r].pc = "set"
            /\ reqs[r].pc = "set" => reqs'[r].reply = "success"]_vars

\* a request over the cap was answered 302 although its token is marked
C29_Witness ==
  \E r \in Requests :
    /\ reqs[r].reply = "redirect"
    /\ ~Falsy(reqs[r].key)
    /\ marker[reqs[r].key] # None

\* C30: the worker takes the messages one at a time and in log order: a message
\* has been given to the handler only if the handler returned from every message
\* before it (processed or skipped), the handler is given a message only when it
\* is not inside another one, and that message is the one right after the
\* worker's position; so nothing behind a message that keeps throwing is started.
C30_InOrderOneAtATime ==
  /\ [](\A o \in 1..Len(log) :
          hist[o].seen >= 1 => \A j \in 1..(o - 1) : hist[j].returned)
  /\ [][\A o \in 1..Len(log) :
          hist'[o].seen > hist[o].seen =>
            /\ worker.pc = "idle"
            /\ o = worker.pos + 1
            /\ \A j \in 1..(o - 1) : hist[j].returned]_vars
  /\ [][\A o \in 1..Len(log) :
          (hist[o].thrown /\ ~hist[o].returned /\ worker'.pos >= o) => hist'[o].returned]_vars

\* a message was given to the handler twice and threw, and the message behind it
\* has not been started
C30_Witness ==
  \E o \in 1..(Len(log) - 1) :
    /\ hist[o].thrown
    /\ hist[o].seen >= 2
    /\ ~hist[o].returned
    /\ hist[o + 1].seen = 0

\* a step of POST /init or POST /order
IngestionStep == reqs' # reqs \/ inits' # inits

\* C31: no step of POST /init or POST /order changes the products table, the
\* orders table or anything else of the worker (position, committed offset), and a
\* request is answered 'success' only by the SET that follows the produce, a step
\* that is taken whatever the worker is doing.
C31_NoDatabaseOnHotPath ==
  /\ [][IngestionStep => UNCHANGED <<products, orders, worker, committed>>]_vars
  /\ [][\A r \in Requests :
          (reqs[r].reply # "success" /\ reqs'[r].reply = "success") =>
            /\ reqs[r].pc = "set"
            /\ UNCHANGED <<products, orders, worker, committed>>]_vars

\* a request was answered 'success' while the worker has never been started and
\* no orders row exists
C31_Witness ==
  \E r \in Requests :
    /\ reqs[r].reply = "success"
    /\ worker.pc = "down"
    /\ crashes = 0
    /\ RowsOf(reqs[r].orderId) = {}
    /\ products[SeedProduct] = None

\* C32: the orders table only grows, one row at a time, by the worker's COMMIT of
\* the message it is handling; every row that exists stays as it is through every
\* later step (redelivery, ROLLBACK, kill, restart and its Init DB).
C32_OrdersAppendOnly ==
  [][/\ Len(orders') >= Len(orders)
     /\ \A i \in 1..Len(orders) : orders'[i] = orders[i]
     /\ orders' # orders =>
          /\ worker.pc = "commit"
          /\ worker'.pc = "resolve"
          /\ orders' = Append(orders, [id |-> Message.orderId,
                                       product_id |-> Message.productId,
                                       user_id |-> Message.userId])]_vars

\* a row exists, the worker was killed and restarted, and the redelivered message
\* of that row was rolled back
C32_Witness ==
  /\ crashes >= 1
  /\ worker.pc = "idle"
  /\ \E o \in 1..Len(log) :
       /\ hist[o].conflict
       /\ hist[o].thrown
       /\ RowsOf(log[o].orderId) # {}

\* the worker process starts in this step
Starting == worker.pc = "down" /\ worker'.pc # "down"

\* C33: a start of the worker leaves every existing products row with its stock,
\* inserts the seed row at the seed stock only when it is absent, inserts no other
\* product, leaves the orders rows as they are, and running Init DB once more on
\* the result changes nothing.
C33_BootstrapIdempotent ==
  [][Starting =>
       /\ orders' = orders
       /\ \A p \in Products :
            products'[p] = IF p = SeedProduct /\ products[p] = None
                             THEN Some(SeedStock) ELSE products[p]
       /\ Bootstrap(products') = products']_vars

\* the worker was restarted after it had committed an order of the seed product:
\* the row it found at stock 99 is still at 99
C33_Witness ==
  /\ crashes >= 1
  /\ worker.pc # "down"
  /\ products[SeedProduct] = Some(SeedStock - 1)
  /\ \E o \in 1..Len(log) : hist[o].commits = 1 /\ hist[o].conflict

\* C34: every rate tally carries an expiry as soon as the request that created it
\* is past its expire call, whether that call was served or rejected, so that the
\* tally is destroyed when its window is over.
C34_TallyHasExpiry ==
  \A s \in DOMAIN rate :
    rate[s].exp = None =>
      \E r \in Requests : reqs[r].pc = "expire" /\ reqs[r].sec = s

\* the marker of token k was set by an accepted request and has expired
Expired(k) ==
  /\ ~Falsy(k)
  /\ marker[k] = None
  /\ \E a \in Requests : reqs[a].reply = "success" /\ reqs[a].key = k

\* C35: a request whose token's marker has expired is not answered 'ignored' by
\* the lookup but goes on to the reservation script, which takes a unit when the
\* stock has one and answers 'sold_out' otherwise, as for a token never seen.
C35_ExpiredTokenIsNew ==
  /\ [][\A r \in Requests :
          (reqs[r].pc = "get" /\ Expired(reqs[r].key) /\ Served(r)) =>
            reqs'[r].pc = "eval"]_vars
  /\ [][\A r \in Requests :
          (reqs[r].pc = "eval" /\ Expired(reqs[r].key) /\ Served(r)) =>
            LET p == reqs[r].productId
            IN IF Current(p) >= 1
                 THEN reqs'[r].pc = "send" /\ stock'[p] = Some(Current(p) - 1)
                 ELSE reqs'[r].reply = "sold_out" /\ stock' = stock]_vars

\* a token accepted once is on its way to a second acceptance: the first marker was
\* set and has expired before the second request arrived, and the second request
\* has reserved a unit and produced its event
C35_Witness ==
  \E a, b \in Requests :
    /\ a # b
    /\ reqs[a].reply = "success"
    /\ reqs[b].key = reqs[a].key
    /\ marker[reqs[a].key] = None
    /\ reqs[b].sec >= reqs[a].sec + MarkerTtl
    /\ reqs[b].pc = "set"
    /\ reqs[b].dec = 1

\* the committed stock of product p; before the first Init DB it is the stock that
\* Init DB will find or seed
DurableStock(p) == IF products[p] = None THEN stock0[p] ELSE Val(products[p])

\* C36: in every state, for each product, the initial durable stock minus the
\* committed durable stock is the number of committed orders rows of the product,
\* and a step changes the products table exactly when it adds an orders row.
C36_AtomicDurableWrite ==
  /\ [](\A p \in Products : stock0[p] - DurableStock(p) = Cardinality(RowsFor(p)))
  /\ [][\A p \in Products :
          DurableStock(p)' # DurableStock(p) <=>
            Cardinality(RowsFor(p)') # Cardinality(RowsFor(p))]_vars

\* a row is committed, and a later transaction was abandoned after its UPDATE had
\* run: its message threw without a commit, or the worker was killed
C36_Witness ==
  /\ Len(orders) >= 1
  /\ \E o \in 1..Len(log) :
       /\ hist[o].seen >= 1
       /\ hist[o].commits = 0
       /\ hist[o].thrown
       /\ ~hist[o].conflict
  /\ crashes >= 1

\* C37: the stock of every products row is at least 0 in every state, and a
\* message that finds the stock at 0 changes no row.
C37_DurableStockNonNegative ==
  /\ [](\A p \in Products : products[p] # None => Val(products[p]) >= 0)
  /\ [][(worker.pc = "update" /\ worker' # worker /\ products[Message.productId] = Some(0)) =>
          (worker'.pc \in {"rollback", "catch", "down"} /\ UNCHANGED <<products, orders>>)]_vars

\* a message found the stock of its product at 0, was refused the decrement and
\* the handler returned: the stock is still 0
C37_Witness ==
  \E o \in 1..Len(log) :
    /\ hist[o].norow
    /\ hist[o].returned
    /\ hist[o].commits = 0
    /\ products[log[o].productId] = Some(0)

\* the reservation script is executed for request r in this step
Executes(r) == reqs[r].pc = "eval" /\ Served(r)

\* C38: once product p has been initialised, the quantity of its last init minus
\* the stock key of p is the number of script executions for p that returned 1
\* since that init (before any init there is no stock key and no such execution); an
\* execution that returns 1 takes exactly one unit, one that returns 0 leaves the
\* stock keys as they are, and between inits the stock key of p falls by exactly
\* the number of new successful executions.
C38_CounterAccounting ==
  /\ [](\A p \in Products :
          IF inits.n[p] = 0 THEN stock[p] = None /\ decs[p] = 0
                           ELSE inits.qty[p] - Current(p) = decs[p] - inits.base[p])
  /\ [][\A r \in Requests :
          Executes(r) =>
            LET p == reqs[r].productId
            IN IF reqs'[r].pc = "send"
                 THEN /\ Current(p)' = Current(p) - 1
                      /\ decs'[p] = decs[p] + 1
                      /\ \A o \in ReqProducts \ {p} : stock'[o] = stock[o]
                 ELSE stock' = stock /\ decs' = decs]_vars
  /\ [][\A p \in Products :
          inits'.n[p] = inits.n[p] =>
            Current(p) - Current(p)' = decs'[p] - decs[p]]_vars

\* two executions took the two units of an init to 2, and the stock key is at 0
C38_Witness ==
  \E p \in Products :
    /\ inits.n[p] = 1
    /\ inits.qty[p] = 2
    /\ decs[p] = 2
    /\ stock[p] = Some(0)
    /\ Cardinality({r \in Requests : reqs[r].productId = p /\ reqs[r].dec = 1}) = 2

\* C39: the events of the log carry pairwise different reservation ids, one per
\* produce and recorded by exactly the request that produced it; the orders rows
\* have pairwise different keys; and the INSERT of a message meets a unique-key
\* conflict only when that same message has been committed at an earlier delivery.
C39_FreshReservationIds ==
  /\ [](\A i, j \in 1..Len(log) : i # j => log[i].orderId # log[j].orderId)
  /\ [](\A o \in 1..Len(log) :
          \A r \in Requests : reqs[r].orderId = log[o].orderId <=> log[o].req = r)
  /\ [](\A i, j \in 1..Len(orders) : i # j => orders[i].id # orders[j].id)
  /\ [][\A o \in 1..Len(log) :
          (~hist[o].conflict /\ hist'[o].conflict) =>
            /\ hist[o].commits = 1
            /\ hist[o].seen >= 2
            /\ \A i \in RowsOf(log[o].orderId) : orders[i].id = log[o].orderId]_vars

\* two accepted requests have their two events in the log under different ids,
\* both rows are committed, and a redelivered message met the unique-key conflict
C39_Witness ==
  /\ \E a, b \in Requests :
       /\ a # b
       /\ reqs[a].reply = "success"
       /\ reqs[b].reply = "success"
       /\ reqs[a].orderId # reqs[b].orderId
       /\ RowsOf(reqs[a].orderId) # {}
       /\ RowsOf(reqs[b].orderId) # {}
  /\ \E o \in 1..Len(log) : hist[o].conflict

====
